---- MODULE Spec2Model ----
(***************************************************************************)
(* State-machine model of SACTrainer                                       *)
(* (ml-agents/mlagents/trainers/sac/trainer.py): the bookkeeping that      *)
(* turns environment snapshots into per-agent trajectories, flushes them   *)
(* into the update buffer, keeps the reward ledger and the recent-reward   *)
(* history, and schedules policy updates.                                  *)
(***************************************************************************)
EXTENDS Integers, Sequences, FiniteSets, TLC

VARIABLES
    trainer_parameters,  \* the hyperparameter dictionary (fixed after construction)
    step,                \* self.step
    policy_step,         \* the policy's global step (policy.get_current_step())
    info,                \* the latest environment snapshot (BrainInfo) of this brain
    env_t,               \* number of environment steps taken so far
    agent_buffer,        \* training_buffer[agent_id]: the agent's trajectory
    last_brain_info,     \* training_buffer[agent_id].last_brain_info
    update_buffer,       \* training_buffer.update_buffer
    collected_rewards,   \* self.collected_rewards: signal name -> agent -> value
    episode_steps,       \* self.episode_steps
    reward_buffer,       \* self._reward_buffer, a deque(maxlen = reward_buff_cap)
    stats,               \* self.stats: statistic name -> list of reported values
    curr_to_use,         \* the current view last handed to the reward signals
    last_update,         \* the optimizer invocations of the latest update_policy call
    error,               \* "none", or the exception that ended the run
    bc,                  \* the BCTrainer, when one is attached
    pc                   \* position in the step loop

vars == << trainer_parameters, step, policy_step, info, env_t, agent_buffer,
           last_brain_info, update_buffer, collected_rewards, episode_steps,
           reward_buffer, stats, curr_to_use, last_update, error, bc, pc >>

----------------------------------------------------------------------------
(* Bounds of the model *)

\* number of environment ticks (steps and resets) explored
MaxEnvSteps == 3

Agents == {"a1", "a2"}

\* The order in which the environment lists the agents that are present.
AgentOrder == << "a1", "a2" >>

\* per-step environment rewards handed out by the simulation
RewardVals == {0, 1}

\* unscaled values returned by the curiosity signal's evaluate
CuriosityVals == {1}

\* Python's None, for the fields that hold a record or nothing
None == [ none |-> TRUE ]

----------------------------------------------------------------------------
(* Data *)

\* collected_rewards = {"environment": {}} plus one entry per registered signal
SignalNames == {"environment", "curiosity"}

\* The strength by which a reward signal scales its unscaled reward.
Strength == 2

\* The ways the trainer is constructed here: its hyperparameter dictionary
\* (with reward_buff_cap, a constructor argument, beside it) and the global step
\* of the policy, which is 0 for a new model and the checkpoint's step for a
\* loaded one.  The dictionary may carry keys the trainer never reads, such as
\* reward_signal_updates_per_train.
Constructions ==
    { [ params |-> [ batch_size |-> 4, buffer_size |-> 3, buffer_init_steps |-> 0,
                     train_interval |-> 1, time_horizon |-> 2, sequence_length |-> 1,
                     num_epoch |-> 2, target_update_steps |-> 2,
                     reward_signal_updates_per_train |-> 2,
                     reward_buff_cap |-> 2 ],
        policy_step |-> 2 ],
      [ params |-> [ batch_size |-> 2, buffer_size |-> 2, buffer_init_steps |-> 2,
                     train_interval |-> 2, time_horizon |-> 1, sequence_length |-> 1,
                     num_epoch |-> 1, target_update_steps |-> 3,
                     reward_signal_updates_per_train |-> 1,
                     reward_buff_cap |-> 1 ],
        policy_step |-> 0 ] }

\* Agent lists of a snapshot: the agents present, in the environment's order.
AgentLists ==
    { s \in UNION { [1..n -> Agents] : n \in 0..Cardinality(Agents) } :
        \A i, j \in DOMAIN s :
            i < j => \E p, q \in DOMAIN AgentOrder :
                        p < q /\ AgentOrder[p] = s[i] /\ AgentOrder[q] = s[j] }

\* agents.index(agent_id)
IndexOf(seq, x) == CHOOSE i \in DOMAIN seq : seq[i] = x

InSeq(seq, x) == \E i \in DOMAIN seq : seq[i] = x

\* A BrainInfo produced by the environment at tick t: every agent's observation
\* is the tick itself, so that entries of different snapshots can be told apart.
\* The brain has no camera: visual_observations is the empty list.
BrainInfos(t) ==
    UNION { { [ agents |-> al,
                visual_observations |-> << >>,
                vector_observations |-> [i \in DOMAIN al |-> t],
                rewards |-> [i \in DOMAIN al |-> r],
                local_done |-> d ] :
              r \in RewardVals, d \in [DOMAIN al -> BOOLEAN] } :
            al \in AgentLists }

\* The BrainInfo an environment reset returns: nobody is done, no reward yet.
ResetInfos(t) ==
    { b \in BrainInfos(t) :
        \A i \in DOMAIN b.agents : ~b.local_done[i] /\ b.rewards[i] = 0 }

\* The same snapshot from a brain with one camera: visual_observations holds
\* one list, with one image per agent.
WithCamera(b) ==
    [ b EXCEPT !.visual_observations =
                  << [i \in DOMAIN b.agents |-> b.vector_observations[i]] >> ]

Min(a, b) == IF a <= b THEN a ELSE b

Max(a, b) == IF a >= b THEN a ELSE b

----------------------------------------------------------------------------
(* Collaborators, specified at their interface *)

\* signal.evaluate(curr, next) -> (scaled, unscaled), aligned with next's agents.
\* The environment signal reports the simulation's reward, the curiosity signal
\* the value cu; each scales its unscaled reward by its strength.
Evaluate(name, curr, next, cu) ==
    LET unscaled == [i \in DOMAIN next.agents |->
                        IF name = "environment" THEN next.rewards[i] ELSE cu]
        scaled == [i \in DOMAIN next.agents |-> Strength * unscaled[i]]
    IN  << scaled, unscaled >>

\* Buffer.append_update_buffer(agent_id, batch_size=None, training_length):
\* the trajectory cut into contiguous windows of training_length; a trailing
\* window shorter than training_length is dropped.
append_update_buffer(ub, traj, training_length) ==
    ub \o SubSeq(traj, 1, (Len(traj) \div training_length) * training_length)

\* Buffer.truncate_update_buffer(max_length): keeps the newest max_length entries.
truncate_update_buffer(ub, max_length) ==
    IF Len(ub) > max_length
    THEN SubSeq(ub, Len(ub) - max_length + 1, Len(ub))
    ELSE ub

\* AgentBuffer.reset_agent() on the loop state st: the trajectory is emptied and
\* the link to the last snapshot is dropped.
reset_agent(st, agent_id) ==
    [ st EXCEPT !.buf[agent_id] = << >>, !.lbi[agent_id] = None ]

\* A deque that was built without its maxlen.
appendleft_Unbounded(dq, x, maxlen) == << x >> \o dq

\* deque(maxlen).appendleft(x): the new entry goes to the front; a full deque
\* drops its last (oldest) entry.
appendleft(dq, x, maxlen) ==
    SubSeq(<< x >> \o dq, 1, Min(Len(dq) + 1, maxlen))

----------------------------------------------------------------------------
(* add_experiences *)

\* What construct_curr_info raises: visual_observations starts as the empty
\* list, so visual_observations[i].append fails for the first agent as soon as
\* next_info has a camera.
construct_curr_info_raises(next_info) ==
    IF Len(next_info.agents) > 0 /\ Len(next_info.visual_observations) > 0
    THEN "IndexError"
    ELSE "none"

\* construct_curr_info, when it returns: for every agent of next_info, the
\* entry of its last recorded BrainInfo, or of next_info itself when none is
\* recorded.
construct_curr_info(next_info, lbi) ==
    LET src(a) == IF lbi[a] = None THEN next_info ELSE lbi[a]
        at(i) == IndexOf(src(next_info.agents[i]).agents, next_info.agents[i])
    IN  [ agents |-> [i \in DOMAIN next_info.agents |->
                        src(next_info.agents[i]).agents[at(i)]],
          visual_observations |->
              [c \in DOMAIN next_info.visual_observations |->
                  [i \in DOMAIN next_info.agents |->
                      src(next_info.agents[i]).visual_observations[c][at(i)]]],
          vector_observations |-> [i \in DOMAIN next_info.agents |->
                        src(next_info.agents[i]).vector_observations[at(i)]],
          rewards |-> [i \in DOMAIN next_info.agents |->
                        src(next_info.agents[i]).rewards[at(i)]],
          local_done |-> [i \in DOMAIN next_info.agents |->
                        src(next_info.agents[i]).local_done[at(i)]] ]

\* The Transition appended for an agent: observation of the stored snapshot,
\* observation and done flag of the next one, the scaled reward of every signal.
Transition(agent_id, stored_info, idx, next_info, next_idx, tmp_rewards_dict) ==
    [ agent |-> agent_id,
      vector_obs |-> stored_info.vector_observations[idx],
      next_vector_in |-> next_info.vector_observations[next_idx],
      done |-> next_info.local_done[idx],
      rewards |-> [name \in SignalNames |-> tmp_rewards_dict[name][1][next_idx]] ]

\* A ledger fed with the unscaled reward of every signal.
LedgerIncrement_Unscaled(name, next_info, next_idx, tmp_rewards_dict) ==
    tmp_rewards_dict[name][2][next_idx]

\* What add_experiences adds to collected_rewards[name][agent_id].
LedgerIncrement(name, next_info, next_idx, tmp_rewards_dict) ==
    IF name = "environment"
    THEN next_info.rewards[next_idx]
    ELSE tmp_rewards_dict[name][1][next_idx]

\* add_experiences without its check of the stored done flag.
RecordsTransition_NoDoneCheck(stored_info, idx) == TRUE

\* add_experiences with the check of the stored done flag inverted.
RecordsTransition_Inverted(stored_info, idx) == stored_info.local_done[idx]

\* Whether add_experiences records a transition for an agent with this stored
\* snapshot.
RecordsTransition(stored_info, idx) == ~stored_info.local_done[idx]

\* One iteration of "for agent_id in next_info.agents" on the loop state
\* st = [buf, rewards, steps, err].
AddAgent(st, agent_id, next_info, lbi, tmp_rewards_dict) ==
    LET stored_info == lbi[agent_id] IN
    IF stored_info = None THEN st
    ELSE
      LET idx == IndexOf(stored_info.agents, agent_id)
          next_idx == IndexOf(next_info.agents, agent_id)
          st1 == IF RecordsTransition(stored_info, idx)
                 THEN [ st EXCEPT
                          !.buf[agent_id] = Append(@,
                              Transition(agent_id, stored_info, idx, next_info,
                                         next_idx, tmp_rewards_dict)),
                          !.rewards = [name \in SignalNames |->
                              [ st.rewards[name] EXCEPT ![agent_id] =
                                  @ + LedgerIncrement(name, next_info, next_idx,
                                                      tmp_rewards_dict) ] ] ]
                 ELSE st
          st2 == IF ~next_info.local_done[next_idx]
                 THEN [ st1 EXCEPT !.steps[agent_id] = @ + 1 ]
                 ELSE st1
      IN  IF idx # next_idx
          THEN [ st EXCEPT !.err = "AssertionError" ]
          ELSE st2

\* The loop over next_info.agents from position i on; an assertion failure ends
\* it with what the earlier iterations did.
RECURSIVE AddLoop(_, _, _, _, _)
AddLoop(i, st, next_info, lbi, tmp_rewards_dict) ==
    IF i > Len(next_info.agents) \/ st.err # "none" THEN st
    ELSE AddLoop(i + 1,
                 AddAgent(st, next_info.agents[i], next_info, lbi, tmp_rewards_dict),
                 next_info, lbi, tmp_rewards_dict)

\* An add_experiences that also flushes the first agent's trajectory.
AddFrame_Flushes ==
    /\ update_buffer' = update_buffer \o agent_buffer[AgentOrder[1]]
    /\ UNCHANGED << bc, trainer_parameters, step, policy_step, reward_buffer, stats,
                    last_update >>

\* What add_experiences leaves alone.
AddFrame ==
    UNCHANGED << bc, trainer_parameters, step, policy_step, update_buffer,
                 reward_buffer, stats, last_update >>

\* add_experiences(curr_all_info, next_all_info, take_action_outputs): the
\* environment steps from the current snapshot to next_info.
add_experiences(next_info, cu) ==
    LET curr_info == info
        lbi == [a \in Agents |->
                  IF InSeq(curr_info.agents, a) THEN curr_info ELSE last_brain_info[a]]
        raised == IF curr_info.agents # next_info.agents
                  THEN construct_curr_info_raises(next_info)
                  ELSE "none"
        ctu == IF curr_info.agents # next_info.agents
               THEN construct_curr_info(next_info, lbi)
               ELSE curr_info
        tmp_rewards_dict == [name \in SignalNames |-> Evaluate(name, ctu, next_info, cu)]
        st == AddLoop(1, [ buf |-> agent_buffer, rewards |-> collected_rewards,
                           steps |-> episode_steps, err |-> "none" ],
                      next_info, lbi, tmp_rewards_dict)
    IN  /\ last_brain_info' = lbi
        /\ IF raised # "none"
           THEN /\ error' = raised
                /\ UNCHANGED << curr_to_use, agent_buffer, collected_rewards,
                                episode_steps >>
           ELSE /\ curr_to_use' = ctu
                /\ agent_buffer' = st.buf
                /\ collected_rewards' = st.rewards
                /\ episode_steps' = st.steps
                /\ error' = st.err
        /\ info' = next_info
        /\ env_t' = env_t + 1
        /\ pc' = "process"
        /\ AddFrame

AddExperiences ==
    /\ error = "none"
    /\ pc = "add"
    /\ env_t < MaxEnvSteps
    /\ \E next_info \in BrainInfos(env_t + 1), cu \in CuriosityVals :
          add_experiences(next_info, cu)

----------------------------------------------------------------------------
(* process_experiences *)

\* The statistics this model keeps of self.stats.
StatNames ==
    { "Environment/Cumulative Reward", "Environment/Episode Length",
      "Policy/Curiosity Reward", "Losses/Value Loss", "Losses/Policy Loss",
      "Losses/Q1 Loss", "Losses/Q2 Loss", "Policy/Entropy Coeff" }

\* reward_signals[name].stat_name
StatName(name) ==
    IF name = "environment" THEN "Environment/Cumulative Reward"
    ELSE "Policy/Curiosity Reward"

\* A flush condition that ignores the time horizon.
ShouldFlush_DoneOnly(local_done, len, time_horizon) == local_done /\ len > 0

\* The flush condition with the time horizon compared by >=.
ShouldFlush_OffByOne(local_done, len, time_horizon) ==
    (local_done \/ len >= time_horizon) /\ len > 0

\* The condition under which process_experiences flushes an agent whose
\* trajectory holds len transitions.
ShouldFlush(local_done, len, time_horizon) ==
    (local_done \/ len > time_horizon) /\ len > 0

\* The value process_experiences hands to reward_buffer.appendleft: it reads
\* the environment ledger after "rewards[agent_id] = 0" has run.
PushedReward(rewards_before, rewards_after, agent_id) ==
    rewards_after[agent_id]

\* The episode-completion branch with the history fed from every signal's
\* ledger instead of the environment's alone.
EpisodeDone_PushAllSignals(st, agent_id) ==
    [ st EXCEPT
        !.steps[agent_id] = 0,
        !.rewards = [name \in SignalNames |->
                        [st.rewards[name] EXCEPT ![agent_id] = 0]],
        !.rb = appendleft(appendleft(st.rb, 0, trainer_parameters.reward_buff_cap),
                          st.rewards["curiosity"][agent_id],
                          trainer_parameters.reward_buff_cap) ]

\* The "if info.local_done[l]" branch: the episode of agent_id is complete.
EpisodeDone(st, agent_id) ==
    LET env_before == st.rewards["environment"]
        env_after == [env_before EXCEPT ![agent_id] = 0]
    IN  [ st EXCEPT
            !.stats = [n \in StatNames |->
                CASE n = "Environment/Episode Length" ->
                        Append(st.stats[n], st.steps[agent_id])
                  [] \E name \in SignalNames : StatName(name) = n ->
                        Append(st.stats[n],
                               st.rewards[CHOOSE name \in SignalNames :
                                            StatName(name) = n][agent_id])
                  [] OTHER -> st.stats[n] ],
            !.steps[agent_id] = 0,
            !.rewards = [name \in SignalNames |->
                            [st.rewards[name] EXCEPT ![agent_id] = 0]],
            !.rb = appendleft(st.rb, PushedReward(env_before, env_after, agent_id),
                              trainer_parameters.reward_buff_cap) ]

\* The loop body without the call of reset_agent after the flush.
ProcessAgent_NoReset(st, new_info, l) ==
    LET agent_id == new_info.agents[l]
        agent_actions == st.buf[agent_id]
        flushed == [ st EXCEPT
                       !.ub = append_update_buffer(@, agent_actions,
                                    trainer_parameters.sequence_length) ]
    IN  IF ShouldFlush(new_info.local_done[l], Len(agent_actions),
                       trainer_parameters.time_horizon)
        THEN IF new_info.local_done[l]
             THEN EpisodeDone(flushed, agent_id)
             ELSE flushed
        ELSE st

\* process_experiences closing the episode on every flush.
ProcessAgent_EveryFlushEndsEpisode(st, new_info, l) ==
    LET agent_id == new_info.agents[l]
        agent_actions == st.buf[agent_id]
        flushed == reset_agent(
                     [ st EXCEPT
                         !.ub = append_update_buffer(@, agent_actions,
                                      trainer_parameters.sequence_length) ],
                     agent_id)
    IN  IF ShouldFlush(new_info.local_done[l], Len(agent_actions),
                       trainer_parameters.time_horizon)
        THEN EpisodeDone(flushed, agent_id)
        ELSE st

\* One iteration of "for l in range(len(info.agents))" on the loop state
\* st = [buf, lbi, ub, rewards, steps, rb, stats].
ProcessAgent(st, new_info, l) ==
    LET agent_id == new_info.agents[l]
        agent_actions == st.buf[agent_id]
        flushed == reset_agent(
                     [ st EXCEPT
                         !.ub = append_update_buffer(@, agent_actions,
                                      trainer_parameters.sequence_length) ],
                     agent_id)
    IN  IF ShouldFlush(new_info.local_done[l], Len(agent_actions),
                       trainer_parameters.time_horizon)
        THEN IF new_info.local_done[l]
             THEN EpisodeDone(flushed, agent_id)
             ELSE flushed
        ELSE st

RECURSIVE ProcessLoop(_, _, _)
ProcessLoop(l, st, new_info) ==
    IF l > Len(new_info.agents) THEN st
    ELSE ProcessLoop(l + 1, ProcessAgent(st, new_info, l), new_info)

\* process_experiences(current_info, new_info) on the latest snapshot.
process_experiences(new_info) ==
    LET st == ProcessLoop(1, [ buf |-> agent_buffer, lbi |-> last_brain_info,
                               ub |-> update_buffer, rewards |-> collected_rewards,
                               steps |-> episode_steps, rb |-> reward_buffer,
                               stats |-> stats ],
                          new_info)
    IN  /\ agent_buffer' = st.buf
        /\ last_brain_info' = st.lbi
        /\ update_buffer' = st.ub
        /\ collected_rewards' = st.rewards
        /\ episode_steps' = st.steps
        /\ reward_buffer' = st.rb
        /\ stats' = st.stats
        /\ UNCHANGED << bc, trainer_parameters, step, policy_step, info, env_t,
                        curr_to_use, last_update, error >>

\* The step loop calls process_experiences right after add_experiences; a
\* further call on the same snapshot is possible before the next step.
ProcessExperiences ==
    /\ error = "none"
    /\ pc \in {"process", "poll"}
    /\ process_experiences(info)
    /\ pc' = "poll"

----------------------------------------------------------------------------
(* end_episode *)

\* An end_episode that resets the local buffers and the episode steps but
\* leaves the reward ledger standing.
end_episode_KeepsLedger(reset_info) ==
    /\ agent_buffer' = [a \in Agents |-> << >>]
    /\ last_brain_info' = [a \in Agents |-> None]
    /\ episode_steps' = [a \in Agents |-> 0]
    /\ info' = reset_info
    /\ env_t' = env_t + 1
    /\ UNCHANGED << bc, trainer_parameters, step, policy_step, update_buffer,
                    collected_rewards, reward_buffer, stats, curr_to_use,
                    last_update, error >>

\* end_episode(), called when the academy resets; the environment hands out
\* the snapshot of the reset.
end_episode(reset_info) ==
    /\ agent_buffer' = [a \in Agents |-> << >>]
    /\ last_brain_info' = [a \in Agents |-> None]
    /\ episode_steps' = [a \in Agents |-> 0]
    /\ collected_rewards' = [name \in SignalNames |-> [a \in Agents |-> 0]]
    /\ info' = reset_info
    /\ env_t' = env_t + 1
    /\ UNCHANGED << bc, trainer_parameters, step, policy_step, update_buffer,
                    reward_buffer, stats, curr_to_use, last_update, error >>

EndEpisode ==
    /\ error = "none"
    /\ pc = "add"
    /\ env_t < MaxEnvSteps
    /\ \E reset_info \in ResetInfos(env_t + 1) : end_episode(reset_info)
    /\ pc' = "add"

----------------------------------------------------------------------------
(* is_ready_update, update_policy, increment_step *)

\* is_ready_update with a strict comparison against batch_size.
is_ready_update_Strict ==
    /\ Len(update_buffer) > trainer_parameters.batch_size
    /\ step % trainer_parameters.train_interval = 0
    /\ step >= trainer_parameters.buffer_init_steps

is_ready_update ==
    /\ Len(update_buffer) >= trainer_parameters.batch_size
    /\ step % trainer_parameters.train_interval = 0
    /\ step >= trainer_parameters.buffer_init_steps

\* A truncation that keeps as many entries as the cap itself.
TruncateLength_WholeCap(buffer_size) == buffer_size

\* int(buffer_size * 0.8)
TruncateLength(buffer_size) == (buffer_size * 8) \div 10

\* The truncation condition off by one.
NeedsTruncation_OffByOne(len, buffer_size) == len > buffer_size + 1

\* Whether update_policy truncates an update buffer of this length.
NeedsTruncation(len, buffer_size) == len > buffer_size

\* A round that needs more than batch_size entries.
RoundRuns_Strict(len, batch_size) == len > batch_size

\* A round that samples whatever the buffer holds.
RoundRuns_Always(len, batch_size) == TRUE

\* Whether a round of update_policy samples a mini-batch and runs the optimizer.
RoundRuns(len, batch_size) == len >= batch_size

\* update_buffer.sample_mini_batch(size): the outcome of sampling size entries
\* from an update buffer of len entries.
sample_mini_batch(len, size) ==
    IF size > len THEN "InsufficientDataError" ELSE "none"

\* Reward-signal updates that only run when a policy round ran.
RewardSignalUpdates_WithPolicyRounds(policy_rounds) ==
    [name \in SignalNames |-> IF policy_rounds > 0 THEN 1 ELSE 0]

\* How many times update_policy calls each reward signal's update, after
\* policy_rounds rounds of the policy.
RewardSignalUpdates(policy_rounds) == [name \in SignalNames |-> 1]

\* A target sync that is one step early.
update_target_OneEarly(trainer_step, target_update_interval) ==
    (trainer_step + 1) % target_update_interval = 0

\* update_target = self.step % self.target_update_interval == 0
update_target(trainer_step, target_update_interval) ==
    trainer_step % target_update_interval = 0

\* The statistics update_policy reports the averaged losses under.
LossStatNames ==
    { "Losses/Value Loss", "Losses/Policy Loss", "Losses/Q1 Loss",
      "Losses/Q2 Loss", "Policy/Entropy Coeff" }

\* update_policy(): num_epoch rounds, the truncation pass, the loss
\* statistics, then one update per reward signal.
update_policy ==
    LET n_sequences == Max(trainer_parameters.batch_size
                             \div trainer_parameters.sequence_length, 1)
        call == [ batch |-> trainer_parameters.batch_size,
                  n_sequences |-> n_sequences,
                  update_target |->
                      update_target(step, trainer_parameters.target_update_steps) ]
        calls == [ i \in 1..(IF RoundRuns(Len(update_buffer),
                                          trainer_parameters.batch_size)
                             THEN trainer_parameters.num_epoch ELSE 0) |-> call ]
        sampled == IF calls = << >> THEN "none"
                   ELSE sample_mini_batch(Len(update_buffer),
                                          trainer_parameters.batch_size)
        mean == IF calls = << >> THEN "NaN" ELSE "mean"
    IN  IF sampled # "none"
        THEN /\ error' = sampled
             /\ UNCHANGED << bc, trainer_parameters, step, policy_step, info, env_t,
                             agent_buffer, last_brain_info, update_buffer,
                             collected_rewards, episode_steps, reward_buffer,
                             stats, curr_to_use, last_update >>
        ELSE /\ update_buffer' =
                   IF NeedsTruncation(Len(update_buffer),
                                      trainer_parameters.buffer_size)
                   THEN truncate_update_buffer(update_buffer,
                             TruncateLength(trainer_parameters.buffer_size))
                   ELSE update_buffer
             /\ stats' = [n \in StatNames |->
                             IF n \in LossStatNames THEN Append(stats[n], mean)
                                                    ELSE stats[n]]
             /\ last_update' = [ calls |-> calls,
                                 signal_updates |-> RewardSignalUpdates(Len(calls)) ]
             /\ UNCHANGED << bc, trainer_parameters, step, policy_step, info, env_t,
                             agent_buffer, last_brain_info, collected_rewards,
                             episode_steps, reward_buffer, curr_to_use, error >>

UpdatePolicy ==
    /\ error = "none"
    /\ pc = "poll"
    /\ update_policy
    /\ pc' = "inc"

\* increment_step_and_update_last_reward()
increment_step ==
    /\ policy_step' = policy_step + 1
    /\ step' = policy_step'
    /\ UNCHANGED << bc, trainer_parameters, info, env_t, agent_buffer, last_brain_info,
                    update_buffer, collected_rewards, episode_steps, reward_buffer,
                    stats, curr_to_use, last_update, error >>

IncrementStep ==
    /\ error = "none"
    /\ pc \in {"poll", "inc"}
    /\ increment_step
    /\ pc' = "add"

----------------------------------------------------------------------------
(* The trainer after construction, and the step loop *)

InitSAC ==
    /\ \E c \in Constructions :
          /\ trainer_parameters = c.params
          /\ policy_step = c.policy_step
    /\ step = 0
    /\ env_t = 0
    /\ info \in ResetInfos(0)
    /\ agent_buffer = [a \in Agents |-> << >>]
    /\ last_brain_info = [a \in Agents |-> None]
    /\ update_buffer = << >>
    /\ collected_rewards = [name \in SignalNames |-> [a \in Agents |-> 0]]
    /\ episode_steps = [a \in Agents |-> 0]
    /\ reward_buffer = << >>
    /\ stats = [n \in StatNames |-> << >>]
    /\ curr_to_use = None
    /\ last_update = None
    /\ error = "none"
    /\ pc = "add"

\* The SAC trainer attaches no BCTrainer (use_bc is commented out).
Init == InitSAC /\ bc = None

Next ==
    \/ AddExperiences
    \/ ProcessExperiences
    \/ UpdatePolicy
    \/ IncrementStep
    \/ EndEpisode

Spec == Init /\ [][Next]_vars

\* The step loop of an environment whose agent population is stable: every
\* snapshot lists the agents of the previous one, in the same order; no academy
\* reset and no update of the policy take place.
AddExperiencesStable ==
    /\ error = "none"
    /\ pc = "add"
    /\ env_t < MaxEnvSteps
    /\ \E next_info \in BrainInfos(env_t + 1), cu \in CuriosityVals :
          /\ next_info.agents = info.agents
          /\ add_experiences(next_info, cu)

NextStable ==
    \/ AddExperiencesStable
    \/ ProcessExperiences
    \/ IncrementStep

SpecStable == Init /\ [][NextStable]_vars

-----------------------------------------------------------------------------
(* The step loop of a brain with one camera *)

InitVisual ==
    /\ \E c \in Constructions :
          /\ trainer_parameters = c.params
          /\ policy_step = c.policy_step
    /\ step = 0
    /\ env_t = 0
    /\ info \in { WithCamera(b) : b \in ResetInfos(0) }
    /\ agent_buffer = [a \in Agents |-> << >>]
    /\ last_brain_info = [a \in Agents |-> None]
    /\ update_buffer = << >>
    /\ collected_rewards = [name \in SignalNames |-> [a \in Agents |-> 0]]
    /\ episode_steps = [a \in Agents |-> 0]
    /\ reward_buffer = << >>
    /\ stats = [n \in StatNames |-> << >>]
    /\ curr_to_use = None
    /\ last_update = None
    /\ error = "none"
    /\ bc = None
    /\ pc = "add"

AddExperiencesVisual ==
    /\ error = "none"
    /\ pc = "add"
    /\ env_t < MaxEnvSteps
    /\ \E b \in BrainInfos(env_t + 1), cu \in CuriosityVals :
          add_experiences(WithCamera(b), cu)

NextVisual ==
    \/ AddExperiencesVisual
    \/ ProcessExperiences
    \/ IncrementStep

SpecVisual == InitVisual /\ [][NextVisual]_vars

-----------------------------------------------------------------------------
(* The constructor, with the demo_aided section of the hyperparameters *)

DemoKeys == { "demo_path", "demo_strength", "demo_steps" }

\* The demo_aided section of the hyperparameter dictionary: absent, or a
\* dictionary with some of the demonstration keys.
DemoAidedSections ==
    { [ present |-> FALSE, keys |-> { } ] }
      \cup { [ present |-> TRUE, keys |-> k ] : k \in SUBSET DemoKeys }

\* A check that only looks for demo_path.
check_demo_keys_OnlyPath(params) ==
    IF params.demo_aided.present /\ "demo_path" \notin params.demo_aided.keys
    THEN "UnityTrainerException"
    ELSE "none"

\* check_demo_keys(trainer_parameters): what it raises.
check_demo_keys(params) ==
    IF params.demo_aided.present
    THEN IF \/ "demo_path" \notin params.demo_aided.keys
            \/ "demo_strength" \notin params.demo_aided.keys
            \/ "demo_steps" \notin params.demo_aided.keys
         THEN "UnityTrainerException"
         ELSE "none"
    ELSE "none"

\* Before __init__ has run the trainer has none of its attributes.
InitConstruct ==
    /\ \E c \in Constructions, d \in DemoAidedSections :
          /\ trainer_parameters =
                [ k \in DOMAIN c.params \cup { "demo_aided" } |->
                     IF k = "demo_aided" THEN d ELSE c.params[k] ]
          /\ policy_step = c.policy_step
    /\ env_t = 0
    /\ info \in ResetInfos(0)
    /\ step = None
    /\ agent_buffer = None
    /\ last_brain_info = None
    /\ update_buffer = None
    /\ collected_rewards = None
    /\ episode_steps = None
    /\ reward_buffer = None
    /\ stats = None
    /\ curr_to_use = None
    /\ last_update = None
    /\ error = "none"
    /\ bc = None
    /\ pc = "construct"

\* __init__: check_demo_keys, then the attributes.
Construct ==
    /\ error = "none"
    /\ pc = "construct"
    /\ LET raised == check_demo_keys(trainer_parameters)
       IN  IF raised # "none"
           THEN /\ error' = raised
                /\ pc' = "raised"
                /\ UNCHANGED << step, agent_buffer, last_brain_info,
                                update_buffer, collected_rewards,
                                episode_steps, reward_buffer, stats >>
           ELSE /\ step' = 0
                /\ agent_buffer' = [a \in Agents |-> << >>]
                /\ last_brain_info' = [a \in Agents |-> None]
                /\ update_buffer' = << >>
                /\ collected_rewards' =
                      [name \in SignalNames |-> [a \in Agents |-> 0]]
                /\ episode_steps' = [a \in Agents |-> 0]
                /\ reward_buffer' = << >>
                /\ stats' = [n \in StatNames |-> << >>]
                /\ pc' = "add"
                /\ UNCHANGED error
    /\ UNCHANGED << bc, trainer_parameters, policy_step, info, env_t, curr_to_use,
                    last_update >>

NextConstruct ==
    \/ Construct
    \/ AddExperiencesStable
    \/ ProcessExperiences
    \/ IncrementStep

SpecConstruct == InitConstruct /\ [][NextConstruct]_vars

-----------------------------------------------------------------------------
(* The behavioural-cloning trainer (ppo/components/bc/trainer.py) *)

MaxDemoLen == 4
MaxBatchSize == 3
MaxBatches == 2

\* Learning rates, as far as update looks at them: 0 (annealed away) or a
\* positive rate.
LearningRates == { 0, 1 }

n_epoch == 3

\* BCTrainer(policy, lr, demo_path, anneal_steps, batch_size), for a
\* demonstration file of demo_len entries.
BCTrainer(lr, demo_len, batch_size) ==
    [ current_lr |-> lr,
      demo_len |-> demo_len,
      n_sequences |-> Min(batch_size, demo_len),
      has_updated |-> FALSE,
      last_call |-> None ]

\* update(policy_buffer, max_batches); learning_rate is the annealed rate the
\* network reports for the mini-batches of this call.
update(max_batches, learning_rate) ==
    IF bc.current_lr <= 0
    THEN /\ bc' = [bc EXCEPT !.last_call = [ max_batches |-> max_batches,
                                             batches |-> 0,
                                             returned |-> "0" ]]
         /\ UNCHANGED error
    ELSE IF bc.n_sequences = 0
         THEN /\ error' = "ZeroDivisionError"
              /\ UNCHANGED bc
         ELSE LET possible_batches == bc.demo_len \div bc.n_sequences
                  num_batches == IF max_batches = 0
                                 THEN possible_batches
                                 ELSE Min(possible_batches, max_batches)
                  batches == n_epoch * num_batches
              IN  /\ bc' = [bc EXCEPT
                              !.current_lr = IF batches = 0 THEN @
                                                            ELSE learning_rate,
                              !.has_updated = TRUE,
                              !.last_call = [ max_batches |-> max_batches,
                                              batches |-> batches,
                                              returned |-> IF batches = 0
                                                           THEN "NaN"
                                                           ELSE "mean" ]]
                  /\ UNCHANGED error

BCUpdate ==
    /\ error = "none"
    /\ \E max_batches \in 0..MaxBatches, learning_rate \in LearningRates :
          /\ learning_rate <= bc.current_lr
          /\ update(max_batches, learning_rate)
    /\ UNCHANGED << trainer_parameters, step, policy_step, info, env_t,
                    agent_buffer, last_brain_info, update_buffer,
                    collected_rewards, episode_steps, reward_buffer, stats,
                    curr_to_use, last_update, pc >>

InitBC ==
    /\ InitSAC
    /\ \E lr \in LearningRates, demo_len \in 0..MaxDemoLen,
          batch_size \in 1..MaxBatchSize :
          bc = BCTrainer(lr, demo_len, batch_size)

NextBC == BCUpdate

SpecBC == InitBC /\ [][NextBC]_vars

----------------------------------------------------------------------------
(* Steps of the loop, as seen from a pair of states *)

AddStep == pc = "add" /\ pc' = "process"

ProcessStep == pc \in {"process", "poll"} /\ pc' = "poll"

UpdateStep == pc = "poll" /\ pc' = "inc"

EndEpisodeStep == pc = "add" /\ pc' = "add" /\ env_t' = env_t + 1

\* The stored snapshot add_experiences finds for an agent: the current
\* snapshot when the agent is in it, else the one recorded earlier.
StoredInfo(a) == IF InSeq(info.agents, a) THEN info ELSE last_brain_info[a]

\* Every transition the trainer holds for an agent, flushed or not.
TransitionsOf(a) ==
    { update_buffer[k] : k \in { j \in DOMAIN update_buffer : update_buffer[j].agent = a } }
        \cup { agent_buffer[a][k] : k \in DOMAIN agent_buffer[a] }

\* The entries of a sequence, as a set.
Range(seq) == { seq[k] : k \in DOMAIN seq }

\* In the state a process_experiences call starts from: the agent is in the
\* snapshot, is done there or holds more than time_horizon transitions, and
\* holds at least one.
FlushCond(a) ==
    \E i \in DOMAIN info.agents :
        /\ info.agents[i] = a
        /\ info.local_done[i] \/ Len(agent_buffer[a]) > trainer_parameters.time_horizon
        /\ Len(agent_buffer[a]) > 0

\* The flush of the agent completes its episode.
DoneFlush(a) ==
    /\ FlushCond(a)
    /\ \E i \in DOMAIN info.agents : info.agents[i] = a /\ info.local_done[i]

\* The trajectories due for a flush, in the order of the snapshot, from
\* position i on.
RECURSIVE FlushedFrom(_)
FlushedFrom(i) ==
    IF i > Len(info.agents) THEN << >>
    ELSE (IF FlushCond(info.agents[i]) THEN agent_buffer[info.agents[i]] ELSE << >>)
            \o FlushedFrom(i + 1)

\* The history rb after one push of the environment ledger entry (as it stands
\* when the call returns) per completed episode, from position i on.
RECURSIVE HistoryAfter(_, _)
HistoryAfter(i, rb) ==
    IF i > Len(info.agents) THEN rb
    ELSE HistoryAfter(i + 1,
            IF DoneFlush(info.agents[i])
            THEN SubSeq(<< collected_rewards'["environment"][info.agents[i]] >> \o rb,
                        1, Min(Len(rb) + 1, trainer_parameters.reward_buff_cap))
            ELSE rb)

----------------------------------------------------------------------------
(* Claims *)

\* C1: is_ready_update() is true exactly when the update buffer holds at least
\* batch_size entries, step is a multiple of train_interval and step has
\* reached buffer_init_steps; with batch_size = 4, buffer_init_steps = 0 and
\* train_interval = 1 it is true at step 4 with 4 flushed transitions and false
\* at step 3 with fewer.
C1_ReadyGate ==
    /\ is_ready_update <=>
          ( /\ Len(update_buffer) >= trainer_parameters.batch_size
            /\ step % trainer_parameters.train_interval = 0
            /\ step >= trainer_parameters.buffer_init_steps )
    /\ ( /\ trainer_parameters.batch_size = 4
         /\ trainer_parameters.buffer_init_steps = 0
         /\ trainer_parameters.train_interval = 1 )
       => /\ (step = 4 /\ Len(update_buffer) = 4) => is_ready_update
          /\ (step = 3 /\ Len(update_buffer) < 4) => ~is_ready_update

\* The scenario of C1: four transitions flushed, step 4, the gate open.
C1_Witness ==
    /\ trainer_parameters.batch_size = 4
    /\ trainer_parameters.buffer_init_steps = 0
    /\ trainer_parameters.train_interval = 1
    /\ step = 4
    /\ Len(update_buffer) = 4
    /\ is_ready_update

\* C2: add_experiences appends no transition and adds nothing to the ledger for
\* an agent whose stored snapshot marks it done; once process_experiences has
\* run, an agent that is done in the latest snapshot has an empty trajectory,
\* so the transitions it records when it reappears start a new trajectory.
C2_NoTransitionAfterDone ==
    [][ /\ AddStep =>
            \A a \in Agents :
                ( /\ StoredInfo(a) # None
                  /\ StoredInfo(a).local_done[IndexOf(StoredInfo(a).agents, a)] )
                => /\ agent_buffer'[a] = agent_buffer[a]
                   /\ \A name \in SignalNames :
                         collected_rewards'[name][a] = collected_rewards[name][a]
        /\ pc' # "process" =>
            \A i \in DOMAIN info'.agents :
                info'.local_done[i] => agent_buffer'[info'.agents[i]] = << >>
      ]_vars

\* An agent that completed an episode at tick 1, went through add_experiences
\* at ticks 2 and 3 (two episode steps counted), recorded nothing at tick 2 and
\* holds, after tick 3, a trajectory of one transition that starts at tick 2.
C2_Witness ==
    \E a \in Agents :
        /\ env_t = 3
        /\ Len(agent_buffer[a]) = 1
        /\ agent_buffer[a][1].vector_obs = 2
        /\ \E k \in DOMAIN update_buffer :
              /\ update_buffer[k].agent = a
              /\ update_buffer[k].done
              /\ update_buffer[k].next_vector_in = 1
        /\ \A tr \in TransitionsOf(a) : tr.next_vector_in # 2
        /\ episode_steps[a] = 2

\* C3: with a stable agent population, the transitions recorded for an agent up
\* to its first done = TRUE are as many as the snapshots that showed the agent
\* not done before it: one per tick while it has not been done, and as many as
\* the tick of its first done afterwards.
C3_TransitionsBeforeFirstDone ==
    \A i \in DOMAIN info.agents :
        LET a == info.agents[i]
            doneTicks == { tr.next_vector_in : tr \in { x \in TransitionsOf(a) : x.done } }
            snapshotDone == info.local_done[i]
        IN  IF doneTicks = {}
            THEN /\ Cardinality(TransitionsOf(a)) = env_t
                 /\ ~snapshotDone
            ELSE LET first == CHOOSE k \in doneTicks : \A m \in doneTicks : k <= m
                 IN  Cardinality({ tr \in TransitionsOf(a) : tr.next_vector_in <= first })
                        = first

\* An agent seen not done at ticks 0 and 1 and done at tick 2: two transitions.
C3_Witness ==
    \E a \in Agents :
        /\ \E tr \in TransitionsOf(a) : tr.done /\ tr.next_vector_in = 2
        /\ \A tr \in TransitionsOf(a) : tr.done => tr.next_vector_in >= 2
        /\ Cardinality({ tr \in TransitionsOf(a) : tr.next_vector_in <= 2 }) = 2

\* C4: process_experiences flushes an agent's trajectory into the update
\* buffer if and only if the agent is done in the new snapshot or holds more
\* than time_horizon transitions, and holds at least one; the flushed
\* trajectories are appended in the order of the snapshot, and every other
\* agent keeps its trajectory and its last-snapshot link untouched.
C4_FlushIffDue ==
    [][ ProcessStep =>
          /\ \A a \in Agents :
                IF FlushCond(a)
                THEN agent_buffer'[a] = << >>
                ELSE /\ agent_buffer'[a] = agent_buffer[a]
                     /\ last_brain_info'[a] = last_brain_info[a]
          /\ update_buffer' = update_buffer \o FlushedFrom(1)
      ]_vars

\* After a process_experiences call: one agent flushed at this tick, another
\* one, not done and within the time horizon, still holding its trajectory.
C4_Witness ==
    /\ pc = "poll"
    /\ \E a, b \in Agents :
          /\ a # b
          /\ agent_buffer[a] = << >>
          /\ \E k \in DOMAIN update_buffer :
                update_buffer[k].agent = a /\ update_buffer[k].next_vector_in = env_t
          /\ Len(agent_buffer[b]) > 0
          /\ agent_buffer[b][Len(agent_buffer[b])].next_vector_in = env_t

\* C5: once process_experiences has run, no agent of the snapshot is left with
\* a trajectory due for a flush (a flushed agent's trajectory has length 0), and
\* a further call on the same snapshot, with no add_experiences in between,
\* changes neither the update buffer nor any trajectory.
C5_FlushIdempotent ==
    [][ /\ pc' = "poll" =>
            \A i \in DOMAIN info'.agents :
                LET len == Len(agent_buffer'[info'.agents[i]])
                IN  ~( /\ info'.local_done[i] \/ len > trainer_parameters.time_horizon
                       /\ len > 0 )
        /\ (pc = "poll" /\ pc' = "poll") =>
              /\ update_buffer' = update_buffer
              /\ agent_buffer' = agent_buffer
      ]_vars

\* After a flush at this tick, with a second process_experiences call possible.
C5_Witness ==
    /\ pc = "poll"
    /\ ENABLED ProcessExperiences
    /\ \E a \in Agents :
          /\ agent_buffer[a] = << >>
          /\ \E k \in DOMAIN update_buffer :
                update_buffer[k].agent = a /\ update_buffer[k].next_vector_in = env_t

\* C6: every recorded transition is appended to the update buffer at most
\* once. The update buffer never holds a transition twice nor one that is still
\* in a trajectory; trajectories only gain transitions of the current tick,
\* which are newer than everything held before; and the update buffer only
\* gains transitions taken out of a trajectory.
C6_FlushedAtMostOnce ==
    [][ /\ \A j, k \in DOMAIN update_buffer' :
              j # k => update_buffer'[j] # update_buffer'[k]
        /\ \A a \in Agents :
              /\ Range(agent_buffer'[a]) \cap Range(update_buffer') = {}
              /\ \A tr \in Range(agent_buffer'[a]) \ Range(agent_buffer[a]) :
                    tr.next_vector_in = env_t' /\ env_t' > env_t
        /\ \A tr \in Range(update_buffer') \cup UNION { Range(agent_buffer'[a]) : a \in Agents } :
              tr.next_vector_in <= env_t'
        /\ \A tr \in Range(update_buffer') \ Range(update_buffer) :
              \E a \in Agents : tr \in Range(agent_buffer[a])
      ]_vars

\* An agent flushed in a step in which it was both done and over the time
\* horizon: its two transitions sit in the update buffer, once each.
C6_Witness ==
    /\ pc = "poll"
    /\ env_t = 2
    /\ trainer_parameters.time_horizon = 1
    /\ \E a \in Agents, k \in DOMAIN update_buffer :
          /\ k + 1 \in DOMAIN update_buffer
          /\ update_buffer[k].agent = a
          /\ update_buffer[k].next_vector_in = 1
          /\ update_buffer[k + 1].agent = a
          /\ update_buffer[k + 1].next_vector_in = 2
          /\ update_buffer[k + 1].done
          /\ Cardinality({ j \in DOMAIN update_buffer : update_buffer[j].agent = a }) = 2

\* C7: when an agent's episode completes, the value at the front of the
\* recent-reward history is the agent's accumulated "environment" ledger value
\* at the moment of completion, and the ledger entry is zero afterwards.
C7_HistoryMirrorsLedger ==
    [][ ProcessStep =>
          \A i \in DOMAIN info.agents :
              ( /\ DoneFlush(info.agents[i])
                /\ \A j \in DOMAIN info.agents : j > i => ~DoneFlush(info.agents[j]) )
              => /\ reward_buffer' # << >>
                 /\ reward_buffer'[1] = collected_rewards["environment"][info.agents[i]]
                 /\ collected_rewards'["environment"][info.agents[i]] = 0
      ]_vars

\* C8: an agent's episode completion sets the agent's ledger entry to zero for
\* every signal and leaves the entries of the other agents unchanged; the
\* recent-reward history receives one value per completed episode, read from
\* the "environment" ledger, and nothing from any other signal.
C8_LedgersZeroedHistoryFromEnvironment ==
    [][ ProcessStep =>
          /\ \A a \in Agents, name \in SignalNames :
                collected_rewards'[name][a] =
                    IF DoneFlush(a) THEN 0 ELSE collected_rewards[name][a]
          /\ reward_buffer' = HistoryAfter(1, reward_buffer)
      ]_vars

\* An episode just completed for an agent with both ledgers non-zero before
\* (as reported to the statistics), another agent's ledgers still standing.
C8_Witness ==
    /\ pc = "poll"
    /\ reward_buffer # << >>
    /\ \E a, b \in Agents, i \in DOMAIN info.agents :
          /\ a # b
          /\ info.agents[i] = a
          /\ info.local_done[i]
          /\ collected_rewards["environment"][a] = 0
          /\ collected_rewards["curiosity"][a] = 0
          /\ stats["Environment/Cumulative Reward"] # << >>
          /\ stats["Environment/Cumulative Reward"][Len(stats["Environment/Cumulative Reward"])] > 0
          /\ stats["Policy/Curiosity Reward"][Len(stats["Policy/Curiosity Reward"])] > 0
          /\ collected_rewards["environment"][b] > 0
          /\ collected_rewards["curiosity"][b] > 0

\* C9: the recent-reward history never holds more than reward_buff_cap entries;
\* a process_experiences call puts one entry per completed episode at the
\* front, the earlier entries follow in their order, and what no longer fits is
\* dropped from the far (oldest) end.
C9_HistoryBounded ==
    [][ LET n == IF ProcessStep
                 THEN Cardinality({ a \in Agents : DoneFlush(a) })
                 ELSE 0
        IN  /\ Len(reward_buffer') <= trainer_parameters.reward_buff_cap
            /\ Len(reward_buffer') =
                  Min(Len(reward_buffer) + n, trainer_parameters.reward_buff_cap)
            /\ \A i \in DOMAIN reward_buffer' :
                  i > n => reward_buffer'[i] = reward_buffer[i - n]
      ]_vars

\* A full history after more completed episodes than it can hold.
C9_Witness ==
    /\ Len(reward_buffer) = trainer_parameters.reward_buff_cap
    /\ Len(stats["Environment/Cumulative Reward"]) > trainer_parameters.reward_buff_cap

\* C10: right after the truncation pass that ends an update_policy call, the
\* update buffer holds at most buffer_size entries.
C10_TruncatedWithinCap ==
    [][ UpdateStep =>
          Len(update_buffer') <= trainer_parameters.buffer_size ]_vars

\* After an update_policy call that truncated: the update buffer is at its
\* truncation length and the terminal transition of a completed episode is no
\* longer in it.
C10_Witness ==
    /\ pc = "inc"
    /\ Len(update_buffer)
          = (trainer_parameters.buffer_size * 8) \div 10
    /\ Cardinality({ k \in DOMAIN update_buffer : update_buffer[k].done })
          < Len(stats["Environment/Episode Length"])

\* C11: an update_policy call that finds the update buffer longer than
\* buffer_size leaves int(0.8 * buffer_size) entries, the most recently appended
\* ones in their order; a call that finds it no longer than buffer_size leaves
\* its contents unchanged.
C11_TruncateKeepsNewest ==
    [][ UpdateStep =>
          LET len == Len(update_buffer)
              keep == (trainer_parameters.buffer_size * 8) \div 10
          IN  IF len > trainer_parameters.buffer_size
              THEN /\ Len(update_buffer') = keep
                   /\ \A k \in 1..keep :
                         update_buffer'[k] = update_buffer[len - keep + k]
              ELSE update_buffer' = update_buffer
      ]_vars

\* After a truncating update_policy call with buffer_size 3: two entries are
\* left, the last one recorded at the current tick, and the terminal transition
\* of a completed episode is gone.
C11_Witness ==
    /\ pc = "inc"
    /\ trainer_parameters.buffer_size = 3
    /\ Len(update_buffer) = 2
    /\ update_buffer[2].next_vector_in = env_t
    /\ Cardinality({ k \in DOMAIN update_buffer : update_buffer[k].done })
          < Len(stats["Environment/Episode Length"])

C14_EndEpisodeResets ==
    [][ EndEpisodeStep =>
          /\ \A a \in Agents :
                /\ agent_buffer'[a] = << >>
                /\ last_brain_info'[a] = None
                /\ episode_steps'[a] = 0
                /\ \A name \in SignalNames : collected_rewards'[name][a] = 0
          /\ UNCHANGED << update_buffer, reward_buffer, step >>
      ]_vars

\* After an academy reset at tick 3 that followed two steps of two agents: the
\* snapshot is the reset's, everything per-agent is cleared, the update buffer
\* and the history are still there.
C14_Witness ==
    /\ pc = "add"
    /\ env_t = 3
    /\ step > 0
    /\ info.agents # << >>
    /\ \A i \in DOMAIN info.agents : info.vector_observations[i] = 3
    /\ curr_to_use # None
    /\ Len(curr_to_use.agents) = 2
    /\ \A i \in DOMAIN curr_to_use.agents : curr_to_use.vector_observations[i] = 1
    /\ \A a \in Agents : agent_buffer[a] = << >> /\ episode_steps[a] = 0
    /\ update_buffer # << >>
    /\ reward_buffer # << >>

C16_OneLossValuePerCall ==
    [][ UpdateStep =>
          LET ran == /\ trainer_parameters.num_epoch > 0
                     /\ Len(update_buffer) >= trainer_parameters.batch_size
          IN  /\ error' = "none"
              /\ \A n \in LossStatNames :
                    stats'[n] = Append(stats[n], IF ran THEN "mean" ELSE "NaN")
      ]_vars

\* After a second update_policy call: the first one ran no round and reported
\* NaN, the second one reported a mean.
C16_Witness ==
    /\ pc = "inc"
    /\ error = "none"
    /\ \A n \in LossStatNames : stats[n] = << "NaN", "mean" >>

\* C17: an update_policy call that finds fewer than batch_size entries in the
\* update buffer invokes the optimizer in no round, and no call ends in an
\* error; a round that runs samples batch_size entries from a buffer that holds
\* at least as many.
C17_SamplesOnlyWhenEnough ==
    [][ UpdateStep =>
          /\ error' = "none"
          /\ Len(update_buffer) < trainer_parameters.batch_size =>
                last_update'.calls = << >>
          /\ \A i \in DOMAIN last_update'.calls :
                /\ last_update'.calls[i].batch = trainer_parameters.batch_size
                /\ last_update'.calls[i].batch <= Len(update_buffer)
      ]_vars

\* After an update_policy call on a non-empty update buffer shorter than
\* batch_size: no optimizer call, no error.
C17_Witness ==
    /\ pc = "inc"
    /\ error = "none"
    /\ update_buffer # << >>
    /\ Len(update_buffer) < trainer_parameters.batch_size
    /\ last_update # None
    /\ last_update.calls = << >>
    /\ Len(stats["Losses/Q1 Loss"]) = 1

\* Whether the hyperparameters carry a demo_aided section that lacks one of the
\* three demonstration keys.
DemoAidedIncomplete ==
    /\ trainer_parameters.demo_aided.present
    /\ ~ (DemoKeys \subseteq trainer_parameters.demo_aided.keys)

\* C18: a constructor call that was given a demo_aided section lacking one of
\* demo_path, demo_strength, demo_steps never gets past the configuration
\* error, which it raises with the step counter, the ledger, the update buffer
\* and the recent-reward history still unset; a constructor call that was given
\* no demo_aided section, or one with all three keys, raises nothing and
\* leaves these attributes initialised.
C18_DemoKeysCheckedFirst ==
    /\ DemoAidedIncomplete => pc \in { "construct", "raised" }
    /\ ~ DemoAidedIncomplete => pc # "raised" /\ error = "none"
    /\ pc = "raised" =>
          /\ error = "UnityTrainerException"
          /\ step = None
          /\ collected_rewards = None
          /\ update_buffer = None
          /\ reward_buffer = None
    /\ pc \notin { "construct", "raised" } =>
          /\ step \in Nat
          /\ DOMAIN collected_rewards = SignalNames
          /\ Len(update_buffer) >= 0
          /\ Len(reward_buffer) >= 0

\* A constructor call that was given a demo_aided section with demo_path and
\* demo_strength but no demo_steps, and raised.
C18_Witness ==
    /\ pc = "raised"
    /\ error = "UnityTrainerException"
    /\ trainer_parameters.demo_aided.present
    /\ trainer_parameters.demo_aided.keys = { "demo_path", "demo_strength" }
    /\ step = None

\* C19 (as stated): an update call of the BCTrainer that was given max_batches
\* > 0 uses at most max_batches mini-batches.
C19_AtMostMaxBatches ==
    bc.last_call # None =>
        (bc.last_call.max_batches > 0 =>
            bc.last_call.batches <= bc.last_call.max_batches)

\* C20 (as stated): no add_experiences call fails its assertion idx == next_idx,
\* whatever agents appeared or disappeared between the two snapshots.
C20_AssertionNeverFails ==
    error # "AssertionError"

\* The view the claim describes for an add_experiences step: the agents of the
\* next snapshot in its order, each with the entry of its last recorded
\* snapshot (the current one for the agents listed there), or of the next
\* snapshot when it has none.
ReconstructedView ==
    LET from(a) == IF InSeq(info.agents, a) THEN info
                   ELSE IF last_brain_info[a] = None THEN info'
                   ELSE last_brain_info[a]
        entry(field, i) ==
            LET a == info'.agents[i]
            IN  from(a)[field][IndexOf(from(a).agents, a)]
    IN  [ agents |-> info'.agents,
          visual_observations |->
              [c \in DOMAIN info'.visual_observations |->
                  [i \in DOMAIN info'.agents |->
                      LET a == info'.agents[i]
                      IN  from(a).visual_observations[c][IndexOf(from(a).agents, a)]]],
          vector_observations |->
              [i \in DOMAIN info'.agents |-> entry("vector_observations", i)],
          rewards |-> [i \in DOMAIN info'.agents |-> entry("rewards", i)],
          local_done |-> [i \in DOMAIN info'.agents |-> entry("local_done", i)] ]

\* C21 (as stated): every add_experiences call hands the reward signals, as
\* current view, the current snapshot itself when its agent list equals the
\* next one's, and otherwise the view reconstructed from the agents' last
\* recorded snapshots.
C21_ViewReconstructed ==
    [][ AddStep =>
          /\ error' # "IndexError"
          /\ curr_to_use' = IF info.agents = info'.agents THEN info
                                                           ELSE ReconstructedView
      ]_vars

\* C22: right after an update_policy call, every optimizer invocation it made
\* carries update_target = (step mod target_update_steps = 0) and n_sequences
\* = max(batch_size div sequence_length, 1), so all rounds of the call pass
\* the same two values.
C22_TargetFlagAndSequences ==
    pc = "inc" =>
        \A i \in DOMAIN last_update.calls :
            /\ last_update.calls[i].update_target
                  = (step % trainer_parameters.target_update_steps = 0)
            /\ last_update.calls[i].n_sequences
                  = Max(trainer_parameters.batch_size
                          \div trainer_parameters.sequence_length, 1)

\* After an update_policy call of two rounds at a positive step that is a
\* multiple of target_update_steps: both rounds asked for the target sync.
C22_Witness ==
    /\ pc = "inc"
    /\ step > 0
    /\ Len(last_update.calls) = 2
    /\ last_update.calls[1].update_target
    /\ last_update.calls[2].update_target

\* C23: an update_policy call made when is_ready_update() holds invokes the
\* optimizer exactly num_epoch times, each time on batch_size sampled entries;
\* and any update_policy call runs either all num_epoch rounds or none.
C23_AllRoundsWhenReady ==
    [][ UpdateStep =>
          /\ is_ready_update =>
                Len(last_update'.calls) = trainer_parameters.num_epoch
          /\ Len(last_update'.calls) \in { 0, trainer_parameters.num_epoch }
          /\ \A i \in DOMAIN last_update'.calls :
                last_update'.calls[i].batch = trainer_parameters.batch_size
      ]_vars

\* After an update_policy call with num_epoch = 2, made when the trainer was
\* ready: two rounds ran on a buffer of at least batch_size entries, which was
\* truncated below batch_size only afterwards.
C23_Witness ==
    /\ pc = "inc"
    /\ trainer_parameters.num_epoch = 2
    /\ step % trainer_parameters.train_interval = 0
    /\ step >= trainer_parameters.buffer_init_steps
    /\ Len(last_update.calls) = 2
    /\ Len(update_buffer) < trainer_parameters.batch_size

\* C24: in a process_experiences call, an agent whose trajectory is flushed
\* without the agent being done gets its trajectory emptied while its ledger
\* entry of every signal and its episode-step counter stay as they were; and a
\* call in which no flushed agent is done leaves the recent-reward history
\* unchanged.
C24_HorizonFlushKeepsLedger ==
    [][ ProcessStep =>
          /\ \A a \in Agents :
                FlushCond(a) /\ ~DoneFlush(a) =>
                    /\ agent_buffer'[a] = << >>
                    /\ episode_steps'[a] = episode_steps[a]
                    /\ \A name \in SignalNames :
                          collected_rewards'[name][a] = collected_rewards[name][a]
          /\ (\A a \in Agents : ~DoneFlush(a)) => reward_buffer' = reward_buffer
      ]_vars

\* After a process_experiences call that flushed, for the time horizon alone,
\* the trajectory of an agent that is still running: its ledger and its
\* episode-step counter still cover all the steps of the episode.
C24_Witness ==
    /\ pc = "poll"
    /\ \E i \in DOMAIN info.agents :
          LET a == info.agents[i]
          IN  /\ ~info.local_done[i]
              /\ agent_buffer[a] = << >>
              /\ episode_steps[a] = trainer_parameters.time_horizon + 1
              /\ collected_rewards["curiosity"][a] = Strength * episode_steps[a]
              /\ \E k \in DOMAIN update_buffer :
                    /\ update_buffer[k].agent = a
                    /\ update_buffer[k].next_vector_in = env_t

\* C25 (as stated): in no reachable state does an agent's trajectory hold more
\* than time_horizon transitions.
C25_NeverOverHorizon ==
    \A a \in Agents : Len(agent_buffer[a]) <= trainer_parameters.time_horizon

\* C25 (amended): in no reachable state does an agent's trajectory hold more
\* than time_horizon + 1 transitions, and once process_experiences has run on
\* the latest snapshot none holds more than time_horizon.
C25_AtMostOneOverHorizon ==
    \A a \in Agents :
        /\ Len(agent_buffer[a]) <= trainer_parameters.time_horizon + 1
        /\ pc # "process" =>
              Len(agent_buffer[a]) <= trainer_parameters.time_horizon

\* Between add_experiences and process_experiences: a running agent holds
\* time_horizon + 1 transitions, the last one recorded at this tick.
C25_Witness ==
    /\ pc = "process"
    /\ error = "none"
    /\ \E a \in Agents :
          /\ Len(agent_buffer[a]) = trainer_parameters.time_horizon + 1
          /\ agent_buffer[a][Len(agent_buffer[a])].next_vector_in = env_t

====
